---- MODULE Spec2Model ----
(***************************************************************************)
(* Model of the cantus firmus generator of 01_cantus_firmus.py: one        *)
(* CantusFirmus object, its make_notes retry loop (generator, validator,   *)
(* cycle ceiling) and its get_notes pitch resolver.                        *)
(*                                                                         *)
(* The program is single threaded.  Every random.choice of the generator   *)
(* is a nondeterministic choice of the model; the deterministic code       *)
(* between two random choices is one step.  Python's 0-based indexing,     *)
(* negative indices and slices are modelled by At, PyIndex and Slice.      *)
(***************************************************************************)
EXTENDS Integers, Sequences, FiniteSets, TLC

VARIABLES
    pc,           \* "idle": no call in progress; "gen": make_notes is inside an attempt
    _length,      \* self._length
    _scale,       \* self._scale
    _degrees,     \* self._degrees
    _intervals,   \* self._intervals
    _directions,  \* self._directions
    _cycles,      \* self._cycles
    ret,          \* outcome of the latest call on the object
    accepted,     \* history: some make_notes call has returned successfully
    attempts      \* history: attempts started by the current / latest make_notes call

vars == <<pc, _length, _scale, _degrees, _intervals, _directions, _cycles,
          ret, accepted, attempts>>

-----------------------------------------------------------------------------
(* Bounds of the model. *)

\* The source sets MAX_CYCLES = 100_000; the model runs the same loop with a
\* small ceiling so that the exhaustion path is explored exhaustively.
MAX_CYCLES == 1

\* Lengths of the crafted attempts handed to the validator predicates.
MaxCraftLen == 9

-----------------------------------------------------------------------------
(* Program constants. *)

MAX_RANGE == 7

MIN_LENGTH == 8

\* The length the command line asks for when none is given.
DEFAULT_LENGTH == 9

MAX_LENGTH == 16

OCTAVE == 12

SCALE_SIZE == 7

MAJOR_SCALE == <<0, 2, 4, 5, 7, 9, 11>>

MINOR_SCALE == <<0, 2, 3, 5, 7, 8, 10>>

\* self._length = None and self._scale = None of the constructor: a length no
\* call can store, and a scale with no entries.
NoLength == 0

NoScale == <<>>

-----------------------------------------------------------------------------
(* Inputs. *)

\* Requested lengths: one below the range, the shortest legal one, one above.
Lengths == {MIN_LENGTH - 1, MIN_LENGTH, MAX_LENGTH + 1}

Scales == {MAJOR_SCALE, MINOR_SCALE}

BaseNotes == {60}

\* Base notes asked of an accepted sequence: the default and an octave below.
PlayBaseNotes == {48, 60}

\* Degrees of the crafted attempts handed to a validator predicate on its own.
CraftDegrees == {0, 2, 4}

-----------------------------------------------------------------------------
(* Python helpers. *)

Abs(x) == IF x < 0 THEN -x ELSE x

\* s[k] for 0 <= k < len(s)
At(s, k) == s[k + 1]

\* s[k] for a negative k: counted from the end
AtEnd(s, k) == s[Len(s) + k + 1]

\* s[a:b] for 0 <= a <= b: the slice is cut at the end of the list
Slice(s, a, b) == SubSeq(s, a + 1, IF b < Len(s) THEN b ELSE Len(s))

\* range(a, b)
Range(a, b) == a .. (b - 1)

RECURSIVE SeqMax(_)
SeqMax(s) ==
    IF Len(s) = 1 THEN s[1]
    ELSE LET m == SeqMax(Tail(s)) IN IF s[1] > m THEN s[1] ELSE m

RECURSIVE SeqMin(_)
SeqMin(s) ==
    IF Len(s) = 1 THEN s[1]
    ELSE LET m == SeqMin(Tail(s)) IN IF s[1] < m THEN s[1] ELSE m

\* list.count(x)
Count(s, x) == Cardinality({k \in 1..Len(s) : s[k] = x})

\* list.index(x) for an x that occurs in the list (0-based, first occurrence)
Index(s, x) == (CHOOSE k \in 1..Len(s) : s[k] = x /\ \A j \in 1..(k - 1) : s[j] # x) - 1

-----------------------------------------------------------------------------
(* Sequence generator. *)

\* Variant: the recovery starts one note too late.
_choose_direction_Late(intervals, directions, current_note_index) ==
    IF current_note_index > 2 /\ Abs(At(intervals, current_note_index - 1)) > 2
    THEN {At(directions, current_note_index - 1) * (-1)}
    ELSE {1, -1}

\* The values _choose_direction can return for the note at current_note_index.
_choose_direction(intervals, directions, current_note_index) ==
    IF current_note_index > 1 /\ Abs(At(intervals, current_note_index - 1)) > 2
    THEN {At(directions, current_note_index - 1) * (-1)}
    ELSE {1, -1}

\* Variant: the second of the two previous intervals is compared with 3.
_choose_interval_Fifth(intervals, current_note_index) ==
    IF /\ current_note_index > 1
       /\ Abs(At(intervals, current_note_index - 1)) > 2
       /\ Abs(At(intervals, current_note_index - 2)) > 3
    THEN {1, 2}
    ELSE {1, 2, 3}

\* The values _choose_interval can return for the note at current_note_index.
_choose_interval(intervals, current_note_index) ==
    IF /\ current_note_index > 1
       /\ Abs(At(intervals, current_note_index - 1)) > 2
       /\ Abs(At(intervals, current_note_index - 2)) > 2
    THEN {1, 2}
    ELSE {1, 2, 3}

-----------------------------------------------------------------------------
(* Rule validator. *)

\* Variant: the tonic of any octave ends the sequence.
_check_rule_3_AnyOctave(degrees) == AtEnd(degrees, -1) % SCALE_SIZE = 0

\* Variant: the tonic is tested at the first note instead of the last.
_check_rule_3_First(degrees) == At(degrees, 0) = 0

_check_rule_3(degrees) == AtEnd(degrees, -1) = 0

\* Variant: the approach is tested one note too early.
_check_rule_4_Early(degrees) == AtEnd(degrees, -3) \in {1, -1, 6, -6}

_check_rule_4(degrees) == AtEnd(degrees, -2) \in {1, -1, 6, -6}

\* Variant: the range is measured from the tonic, not from the lowest note.
_check_rule_6_NoLowest(degrees) ==
    LET highest_note == SeqMax(degrees)
    IN  ~(Abs(highest_note) > MAX_RANGE)

_check_rule_6(degrees) ==
    LET lowest_note == SeqMin(degrees)
        highest_note == SeqMax(degrees)
    IN  ~(Abs(highest_note - lowest_note) > MAX_RANGE)

\* Variant: the test of the height of the climax is left out.
_check_rule_7_NoFloor(degrees, length) ==
    LET highest_note == SeqMax(degrees)
    IN  /\ ~(Count(degrees, highest_note) > 1)
        /\ ~(Index(degrees, highest_note) < length \div 2)

\* Variant: the climax must lie strictly after the middle.
_check_rule_7_PastMiddle(degrees, length) ==
    LET highest_note == SeqMax(degrees)
    IN  /\ ~(Count(degrees, highest_note) > 1)
        /\ ~(Index(degrees, highest_note) <= length \div 2)
        /\ ~(highest_note < 3)

\* Variant: the position of the climax is taken 1-based.
_check_rule_7_OneBased(degrees, length) ==
    LET highest_note == SeqMax(degrees)
    IN  /\ ~(Count(degrees, highest_note) > 1)
        /\ ~(Index(degrees, highest_note) + 1 < length \div 2)
        /\ ~(highest_note < 3)

_check_rule_7(degrees, length) ==
    LET highest_note == SeqMax(degrees)
    IN  /\ ~(Count(degrees, highest_note) > 1)
        /\ ~(Index(degrees, highest_note) < length \div 2)
        /\ ~(highest_note < 3)

_check_rule_8(degrees, directions) ==
    LET num_steps == 3
        up_slope == <<1, 1, 1>>
        down_slope == <<-1, -1, -1>>
        up_slopes_count ==
            Cardinality({i \in Range(0, Len(degrees) - num_steps) :
                            Slice(directions, i, i + num_steps) = up_slope})
        down_slopes_count ==
            Cardinality({i \in Range(0, Len(degrees) - num_steps) :
                            /\ Slice(directions, i, i + num_steps) # up_slope
                            /\ Slice(directions, i, i + num_steps) = down_slope})
    IN  up_slopes_count > 0 \/ down_slopes_count > 0

\* Variant: the last motive is left out (range without the + 1).
_check_rule_10_ShortRange(degrees, length) ==
    LET motive_length == 2
        motives == [k \in 1..(length - motive_length) |->
                        Slice(degrees, k - 1, k - 1 + motive_length)]
    IN  \A e \in 1..Len(motives) : ~(Count(motives, motives[e]) > 1)

_check_rule_10(degrees, length) ==
    LET motive_length == 2
        motives == [k \in 1..(length - motive_length + 1) |->
                        Slice(degrees, k - 1, k - 1 + motive_length)]
    IN  \A e \in 1..Len(motives) : ~(Count(motives, motives[e]) > 1)

\* Variant: only the lower leading tone is checked.
_check_rule_13_LowerOnly(degrees, length, scale) ==
    scale = MAJOR_SCALE =>
        \A i \in Range(0, length - 1) :
            ~(At(degrees, i) = -1 /\ At(degrees, i + 1) # 0)

_check_rule_13(degrees, length, scale) ==
    scale = MAJOR_SCALE =>
        \A i \in Range(0, length - 1) :
            /\ ~(At(degrees, i) = -1 /\ At(degrees, i + 1) # 0)
            /\ ~(At(degrees, i) = 6 /\ At(degrees, i + 1) # 7)

_check_rules(degrees, directions, length, scale) ==
    /\ _check_rule_3(degrees)
    /\ _check_rule_4(degrees)
    /\ _check_rule_6(degrees)
    /\ _check_rule_7(degrees, length)
    /\ _check_rule_8(degrees, directions)
    /\ _check_rule_10(degrees, length)
    /\ _check_rule_13(degrees, length, scale)

-----------------------------------------------------------------------------
(* Pitch resolver. *)

\* scale[k] of a 7-tuple: defined for -7 <= k <= 6, an IndexError otherwise
IndexOk(k) == -SCALE_SIZE <= k /\ k < SCALE_SIZE

PyIndex(scale, k) == IF k >= 0 THEN At(scale, k) ELSE AtEnd(scale, k)

\* Variant: the tonic is sent to the branch of the negative degrees.
ScaleIndex_TonicBelow(degree) ==
    IF degree > 6 THEN degree - SCALE_SIZE
    ELSE IF degree > 0 THEN degree
    ELSE SCALE_SIZE + degree

\* The index get_notes takes into the scale for one degree.
ScaleIndex(degree) ==
    IF degree > 6 THEN degree - SCALE_SIZE
    ELSE IF degree >= 0 THEN degree
    ELSE SCALE_SIZE + degree

\* The pitch get_notes computes for one degree.
Note(degree, scale, base_note) ==
    IF degree > 6 THEN base_note + PyIndex(scale, ScaleIndex(degree)) + OCTAVE
    ELSE IF degree >= 0 THEN base_note + PyIndex(scale, ScaleIndex(degree))
    ELSE base_note + PyIndex(scale, ScaleIndex(degree)) - OCTAVE

-----------------------------------------------------------------------------
(* The object after construction. *)

NoCall == [op |-> "none", kind |-> "none", val |-> <<>>]

Init ==
    /\ pc = "idle"
    /\ _length = NoLength
    /\ _scale = NoScale
    /\ _degrees = <<>>
    /\ _intervals = <<>>
    /\ _directions = <<>>
    /\ _cycles = 0
    /\ ret = NoCall
    /\ accepted = FALSE
    /\ attempts = 0

-----------------------------------------------------------------------------
(* make_notes. *)

MakeRet(kind) == [op |-> "make_notes", kind |-> kind, val |-> <<>>]

\* Variant: the ceiling is tested one cycle too late.
CeilingExceeded_Late(cycles) == cycles > MAX_CYCLES + 1

\* The test that raises the exhaustion error.
CeilingExceeded(cycles) == cycles > MAX_CYCLES

\* Variant: the upper end of the legal lengths is off by one.
LengthRejected_Wide(length) == length < MIN_LENGTH \/ length > MAX_LENGTH + 1

\* Rule 1: the test that raises the length error.
LengthRejected(length) == length < MIN_LENGTH \/ length > MAX_LENGTH

\* The head of the retry loop (while success is False), reached with the loop's
\* success flag, the cycle counter and the number of attempts the call has
\* started: leave the loop and return, raise the exhaustion error, or reset
\* the arrays for a fresh attempt.
WhileHead(success, cycles, started) ==
    IF success
    THEN /\ pc' = "idle"
         /\ ret' = MakeRet("ok")
         /\ accepted' = TRUE
         /\ attempts' = started
         /\ UNCHANGED <<_degrees, _intervals, _directions>>
    ELSE IF CeilingExceeded(cycles)
    THEN /\ pc' = "idle"
         /\ ret' = MakeRet("exhausted")
         /\ attempts' = started
         /\ UNCHANGED <<_degrees, _intervals, _directions, accepted>>
    ELSE /\ pc' = "gen"
         /\ _degrees' = <<0>>
         /\ _intervals' = <<0>>
         /\ _directions' = <<0>>
         /\ ret' = MakeRet("running")
         /\ attempts' = started + 1
         /\ UNCHANGED accepted

\* Variant: the cycle counter is not reset at the start of the call.
MakeNotes_NoReset(length, scale) ==
    /\ pc = "idle"
    /\ IF LengthRejected(length)
       THEN /\ ret' = MakeRet("length_error")
            /\ UNCHANGED <<pc, _length, _scale, _degrees, _intervals, _directions,
                           _cycles, accepted, attempts>>
       ELSE /\ _length' = length
            /\ _scale' = scale
            /\ UNCHANGED _cycles
            /\ WhileHead(FALSE, _cycles, 0)

\* Variant: the scale is stored by the first call only.
MakeNotes_KeepScale(length, scale) ==
    /\ pc = "idle"
    /\ IF LengthRejected(length)
       THEN /\ ret' = MakeRet("length_error")
            /\ UNCHANGED <<pc, _length, _scale, _degrees, _intervals, _directions,
                           _cycles, accepted, attempts>>
       ELSE /\ _length' = length
            /\ _scale' = (IF _scale = NoScale THEN scale ELSE _scale)
            /\ _cycles' = 0
            /\ WhileHead(FALSE, 0, 0)

\* The call make_notes(length, scale), up to its first random choice.
MakeNotes(length, scale) ==
    /\ pc = "idle"
    /\ IF LengthRejected(length)
       THEN /\ ret' = MakeRet("length_error")
            /\ UNCHANGED <<pc, _length, _scale, _degrees, _intervals, _directions,
                           _cycles, accepted, attempts>>
       ELSE /\ _length' = length
            /\ _scale' = scale
            /\ _cycles' = 0
            /\ WhileHead(FALSE, 0, 0)

\* Variant: the magnitude is stored in place of the signed interval.
MakeNextNote_Unsigned ==
    /\ pc = "gen"
    /\ Len(_degrees) < _length
    /\ LET current_note_index == Len(_degrees) IN
       \E magnitude \in _choose_interval(_intervals, current_note_index),
          direction \in _choose_direction(_intervals, _directions, current_note_index) :
            LET interval == magnitude * direction
                previous_note == At(_degrees, current_note_index - 1)
                note == previous_note + interval
            IN  /\ _degrees' = Append(_degrees, note)
                /\ _intervals' = Append(_intervals, magnitude)
                /\ _directions' = Append(_directions, direction)
    /\ UNCHANGED <<pc, _length, _scale, _cycles, ret, accepted, attempts>>

\* One pass of the for loop: _make_next_note(current_note_index).
MakeNextNote ==
    /\ pc = "gen"
    /\ Len(_degrees) < _length
    /\ LET current_note_index == Len(_degrees) IN
       \E magnitude \in _choose_interval(_intervals, current_note_index),
          direction \in _choose_direction(_intervals, _directions, current_note_index) :
            LET interval == magnitude * direction
                previous_note == At(_degrees, current_note_index - 1)
                note == previous_note + interval
            IN  /\ _degrees' = Append(_degrees, note)
                /\ _intervals' = Append(_intervals, interval)
                /\ _directions' = Append(_directions, direction)
    /\ UNCHANGED <<pc, _length, _scale, _cycles, ret, accepted, attempts>>

\* The end of an attempt: the validator runs, the cycle counter is
\* incremented and the loop head is evaluated again.
CheckRules ==
    /\ pc = "gen"
    /\ Len(_degrees) = _length
    /\ LET success == _check_rules(_degrees, _directions, _length, _scale) IN
         /\ _cycles' = _cycles + 1
         /\ WhileHead(success, _cycles + 1, attempts)
    /\ UNCHANGED <<_length, _scale>>

-----------------------------------------------------------------------------
(* get_notes. *)

\* The outcome of get_notes(base_note), with the argument of the call.
GetRet(kind, val, base_note) ==
    [op |-> "get_notes", kind |-> kind, val |-> val, base |-> base_note]

\* What get_notes(base_note) does on the stored state: the pitch list, or the
\* exception it raises.
get_notes(degrees, scale, base_note) ==
    IF Len(degrees) = 0
    THEN GetRet("not_made_error", <<>>, base_note)
    ELSE IF \E k \in 1..Len(degrees) : ~IndexOk(ScaleIndex(degrees[k]))
    THEN GetRet("index_error", <<>>, base_note)
    ELSE GetRet("pitches",
                [k \in 1..Len(degrees) |-> Note(degrees[k], scale, base_note)],
                base_note)

\* Variant: the degrees are wrapped in place while the pitches are computed.
GetNotes_WrapInPlace(base_note) ==
    /\ pc = "idle"
    /\ ret' = get_notes(_degrees, _scale, base_note)
    /\ _degrees' = [k \in 1..Len(_degrees) |-> ScaleIndex(_degrees[k])]
    /\ UNCHANGED <<pc, _length, _scale, _intervals, _directions,
                   _cycles, accepted, attempts>>

GetNotes(base_note) ==
    /\ pc = "idle"
    /\ ret' = get_notes(_degrees, _scale, base_note)
    /\ UNCHANGED <<pc, _length, _scale, _degrees, _intervals, _directions,
                   _cycles, accepted, attempts>>

-----------------------------------------------------------------------------

Next ==
    \/ \E length \in Lengths, scale \in Scales : MakeNotes(length, scale)
    \/ MakeNextNote
    \/ CheckRules
    \/ \E base_note \in BaseNotes : GetNotes(base_note)

Spec == Init /\ [][Next]_vars

-----------------------------------------------------------------------------
(* One call on a fresh object. *)

FirstCall(length, scales) ==
    /\ ret = NoCall
    /\ \E scale \in scales : MakeNotes(length, scale)

\* make_notes(9, scale), the command line's default length, on a fresh object.
NextDefault ==
    \/ FirstCall(DEFAULT_LENGTH, Scales)
    \/ MakeNextNote
    \/ CheckRules

SpecDefault == Init /\ [][NextDefault]_vars

\* The main program: make_notes(9, scale) on a fresh object and, once it has
\* returned, get_notes(base_note) on the accepted sequence.
NextResolve ==
    \/ FirstCall(DEFAULT_LENGTH, Scales)
    \/ MakeNextNote
    \/ CheckRules
    \/ accepted /\ \E base_note \in PlayBaseNotes : GetNotes(base_note)

SpecResolve == Init /\ [][NextResolve]_vars

\* make_notes(8, MAJOR_SCALE) on a fresh object.  The code is sequential: a call
\* that has started keeps executing, which is weak fairness of its steps.
NextOnce ==
    \/ FirstCall(MIN_LENGTH, {MAJOR_SCALE})
    \/ MakeNextNote
    \/ CheckRules

SpecOnce == Init /\ [][NextOnce]_vars /\ WF_vars(MakeNextNote) /\ WF_vars(CheckRules)

-----------------------------------------------------------------------------
(* A validator predicate applied to a crafted attempt. *)

InitCraft ==
    /\ pc = "idle"
    /\ _length \in MIN_LENGTH..MaxCraftLen
    /\ _degrees \in [1.._length -> CraftDegrees]
    /\ _scale = NoScale
    /\ _intervals = <<>>
    /\ _directions = <<>>
    /\ _cycles = 0
    /\ ret = NoCall
    /\ accepted = FALSE
    /\ attempts = 0

CheckRule10 ==
    /\ ret = NoCall
    /\ ret' = [op |-> "_check_rule_10", kind |-> "returned",
               val |-> _check_rule_10(_degrees, _length)]
    /\ UNCHANGED <<pc, _length, _scale, _degrees, _intervals, _directions,
                   _cycles, accepted, attempts>>

NextCraft == CheckRule10

SpecCraft == InitCraft /\ [][NextCraft]_vars

-----------------------------------------------------------------------------
(* Properties. *)

\* make_notes has returned with the given outcome and nothing was called since.
Returned(kind) == pc = "idle" /\ ret = MakeRet(kind)

Succeeded == Returned("ok")

\* The attempt is complete and the validator is about to run on it.
AtValidation == pc = "gen" /\ Len(_degrees) = _length

\* C1: get_notes raises whenever no make_notes call has returned successfully
\* (fresh object, or only calls that raised the length or the exhaustion
\* error): it never returns pitches of a sequence that was not accepted.
C1_GetNotesNeedsAcceptance ==
    (ret.op = "get_notes" /\ ~accepted) => ret.kind # "pitches"

\* Some window of 3 consecutive directions, at a start offset in 0..L-3, is
\* all +1 or all -1.
SlopeWindow(directions, L) ==
    \E o \in 0..(L - 3) :
        \/ \A k \in 0..2 : At(directions, o + k) = 1
        \/ \A k \in 0..2 : At(directions, o + k) = -1

\* C2: _check_rule_8 accepts an attempt of length L if and only if some window
\* of 3 consecutive directions, over the start offsets 0..L-3, is all +1 or
\* all -1.
C2_Rule8AllOffsets ==
    AtValidation =>
        (_check_rule_8(_degrees, _directions) <=> SlopeWindow(_directions, _length))

\* C3: the call raises the exhaustion error once the cycle counter exceeds
\* MAX_CYCLES, tested before each attempt, so that no call starts more than
\* MAX_CYCLES + 1 attempts, and every call ends with an accepted sequence or
\* with that error.
C3_CeilingAndTermination ==
    /\ [](attempts <= MAX_CYCLES + 1)
    /\ [](pc = "gen" => _cycles <= MAX_CYCLES)
    /\ [](Returned("exhausted") => _cycles > MAX_CYCLES)
    /\ (pc = "gen") ~> (Returned("ok") \/ Returned("exhausted"))

C3_Witness == Returned("exhausted") /\ attempts = MAX_CYCLES + 1

\* C4: make_notes with a length below 8 or above 16 raises before any attempt:
\* the call is over at once, no attempt is started, and the cycle counter, the
\* stored length, the scale and the degree sequence are as before the call.
C4_LengthErrorLeavesObject ==
    [][\A length \in Lengths, scale \in Scales :
          (MakeNotes(length, scale) /\ (length < 8 \/ length > 16)) =>
              /\ ret' = MakeRet("length_error")
              /\ pc' = "idle"
              /\ UNCHANGED <<_cycles, _length, _scale, _degrees, attempts>>]_vars

C4_Witness ==
    /\ Returned("length_error")
    /\ accepted
    /\ _cycles > 0
    /\ Len(_degrees) = _length

\* C5: after a successful make_notes(L, scale) the stored degree sequence has
\* length L and its first and last elements are 0.
C5_BeginAndEndOnTonic ==
    Succeeded =>
        /\ Len(_degrees) = _length
        /\ _degrees[1] = 0
        /\ _degrees[_length] = 0

C5_Witness == Succeeded /\ _cycles > 1 /\ Len(_degrees) = MIN_LENGTH

\* C6: after a successful make_notes the second-to-last degree is one of
\* 1, -1, 6, -6.
C6_StepwiseApproach ==
    Succeeded => _degrees[Len(_degrees) - 1] \in {1, -1, 6, -6}

C6_Witness == Succeeded /\ _degrees[Len(_degrees) - 1] = -1

\* C7: after a successful make_notes the largest and the smallest degree differ
\* by at most 7.
C7_RangeBound ==
    Succeeded =>
        \A a, b \in 1..Len(_degrees) : _degrees[a] - _degrees[b] <= 7

C7_Witness ==
    /\ Succeeded
    /\ \E a, b \in 1..Len(_degrees) : _degrees[a] - _degrees[b] = 7

\* C8: after a successful make_notes(L, scale) the maximum degree occurs exactly
\* once, at a (0-based) index >= L // 2, and it is >= 3.
C8_SingleClimax ==
    Succeeded =>
        \E c \in 1..Len(_degrees) :
            /\ \A k \in 1..Len(_degrees) : k # c => _degrees[k] < _degrees[c]
            /\ c - 1 >= _length \div 2
            /\ _degrees[c] >= 3

\* The climax sits exactly at the midpoint of an odd length and is exactly 3.
C8_Witness ==
    /\ Succeeded
    /\ _length = DEFAULT_LENGTH
    /\ _degrees[_length \div 2 + 1] = 3
    /\ \A k \in 1..Len(_degrees) : _degrees[k] <= 3

\* Two distinct start positions carry the same ordered pair of degrees.
RepeatedMotive(degrees, L) ==
    \E i, j \in 0..(L - 2) :
        /\ i # j
        /\ At(degrees, i) = At(degrees, j)
        /\ At(degrees, i + 1) = At(degrees, j + 1)

CraftedExample == <<0, 2, 4, 2, 0, 2, 4, 2, 0>>

\* C9: _check_rule_10 rejects exactly the sequences in which two distinct start
\* positions i # j in 0..L-2 carry the same ordered pair
\* (degrees[i], degrees[i+1]), and it rejects [0,2,4,2,0,2,4,2,0].
C9_Rule10RejectsRepeats ==
    ret.op = "_check_rule_10" =>
        /\ ret.val = FALSE <=> RepeatedMotive(_degrees, _length)
        /\ _degrees = CraftedExample => ret.val = FALSE

C9_Witness ==
    /\ ret.op = "_check_rule_10"
    /\ _degrees = CraftedExample
    /\ ret.val = FALSE

\* C10: after a successful make_notes with the major scale, at every position
\* i from 0 to L-2 a degree -1 is followed by 0 and a degree 6 is followed by 7.
C10_LeadingToneResolves ==
    (Succeeded /\ _scale = MAJOR_SCALE) =>
        \A i \in 1..(_length - 1) :
            /\ _degrees[i] = -1 => _degrees[i + 1] = 0
            /\ _degrees[i] = 6 => _degrees[i + 1] = 7

C10_Witness ==
    /\ Succeeded
    /\ _scale = MAJOR_SCALE
    /\ \E i \in 1..(_length - 1) : _degrees[i] = 6 /\ _degrees[i + 1] = 7

\* A length-8 sequence the generator can produce: four steps up to the climax,
\* then down by step, third and step.
AcceptedExample == <<0, 1, 2, 3, 4, 3, 1, 0>>

\* C11: for length 8 and the major scale make_notes can end with acceptance:
\* the generator produces the sequence [0,1,2,3,4,3,1,0], it passes all seven
\* validator predicates, and the call then returns successfully.
C11_AcceptanceReachable ==
    [][(/\ AtValidation
        /\ _length = MIN_LENGTH
        /\ _scale = MAJOR_SCALE
        /\ _degrees = AcceptedExample) => Returned("ok")']_vars

\* The example is accepted in the first attempt of a call on a fresh object.
C11_Witness ==
    /\ Succeeded
    /\ _length = MIN_LENGTH
    /\ _scale = MAJOR_SCALE
    /\ _degrees = AcceptedExample
    /\ _cycles = 1

\* get_notes has returned and nothing was called since.
Resolved == pc = "idle" /\ ret.op = "get_notes"

\* C12: after a successful make_notes, get_notes(base) returns a pitch list as
\* long as the degree sequence whose first and last elements equal base, for
\* either scale.
C12_PitchesBeginAndEndOnBase ==
    Resolved =>
        /\ ret.kind = "pitches"
        /\ Len(ret.val) = Len(_degrees)
        /\ ret.val[1] = ret.base
        /\ ret.val[Len(ret.val)] = ret.base

C12_Witness ==
    /\ Resolved
    /\ _scale = MINOR_SCALE
    /\ ret.base = 48
    /\ ret.val[1] = 48
    /\ ret.val[DEFAULT_LENGTH] = 48

\* C13: get_notes leaves the degree sequence, the scale, the length and the
\* cycle counter unchanged, and a get_notes call that follows a get_notes call
\* with the same base returns the same pitch list.
C13_GetNotesIdempotent ==
    [][ret'.op = "get_notes" =>
          /\ UNCHANGED <<_degrees, _scale, _length, _cycles>>
          /\ (ret.op = "get_notes" /\ ret.base = ret'.base) => ret' = ret]_vars

\* get_notes has returned the pitches of a sequence that needs the octave wrap.
C13_Witness ==
    /\ Resolved
    /\ ret.kind = "pitches"
    /\ \E k \in 1..Len(_degrees) : _degrees[k] = 7 /\ ret.val[k] = ret.base + OCTAVE

\* C19: every degree of an accepted sequence lies in -4..7, the scale index
\* (degree - 7 above 6, degree in 0..6, 7 + degree below 0) lies in 0..6, one
\* octave shift gives the pitch of the degree, and get_notes does not fail.
C19_SingleOctaveSuffices ==
    /\ Succeeded =>
          \A k \in 1..Len(_degrees) :
              LET d == _degrees[k]
                  index == IF d > 6 THEN d - 7 ELSE IF d >= 0 THEN d ELSE 7 + d
              IN  d \in -4..7 /\ index \in 0..6
    /\ Resolved =>
          /\ ret.kind = "pitches"
          /\ \A k \in 1..Len(_degrees) :
                LET d == _degrees[k] IN
                ret.val[k] = ret.base + 12 * (d \div 7) + _scale[(d % 7) + 1]

C19_Witness ==
    /\ Resolved
    /\ ret.kind = "pitches"
    /\ \E k \in 1..Len(_degrees) : _degrees[k] = -4

\* make_notes has returned from its retry loop, accepted or exhausted.
LoopLeft == Returned("ok") \/ Returned("exhausted")

\* C14: within one make_notes call the cycle counter starts at 0 and goes up by
\* one per completed attempt, accepted or rejected; on successful return it is
\* the number of attempts of that call and at least 1, whatever it was before.
C14_CyclesCountAttempts ==
    /\ pc = "gen" => _cycles = attempts - 1
    /\ LoopLeft => _cycles = attempts
    /\ Succeeded => _cycles >= 1

C14_Witness == Succeeded /\ accepted /\ _cycles = MAX_CYCLES + 1 /\ attempts = _cycles

Leap(interval) == Abs(interval) > 2

\* C15: in every attempt, whenever intervals[i-1] and intervals[i-2] both have
\* a magnitude above 2, intervals[i] has magnitude 1 or 2: never three
\* consecutive intervals of magnitude above 2.
C15_NoThreeLeaps ==
    \A i \in 2..(Len(_intervals) - 1) :
        (Leap(At(_intervals, i - 1)) /\ Leap(At(_intervals, i - 2))) =>
            Abs(At(_intervals, i)) \in {1, 2}

C15_Witness ==
    /\ pc = "gen"
    /\ \E i \in 2..(Len(_intervals) - 1) :
          /\ Leap(At(_intervals, i - 1))
          /\ Leap(At(_intervals, i - 2))
          /\ Abs(At(_intervals, i)) = 2

\* C16: in every attempt, an interval that directly follows an interval of
\* magnitude above 2 has the opposite sign, so two consecutive leaps never go
\* in the same direction.
C16_LeapRecovery ==
    \A i \in 1..(Len(_intervals) - 1) :
        Leap(At(_intervals, i - 1)) =>
            /\ At(_intervals, i) * At(_intervals, i - 1) < 0
            /\ At(_directions, i) = -At(_directions, i - 1)

\* Two consecutive leaps, the second against the first.
C16_Witness ==
    /\ pc = "gen"
    /\ \E i \in 1..(Len(_intervals) - 1) :
          /\ At(_intervals, i - 1) = 3
          /\ At(_intervals, i) = -3

Sign(x) == IF x > 0 THEN 1 ELSE IF x < 0 THEN -1 ELSE 0

\* C17: every attempt starts from degrees = [0], intervals = [0],
\* directions = [0], and whenever the validator is invoked the three arrays
\* have length L with, for every i in 1..L-1,
\* intervals[i] = degrees[i] - degrees[i-1], 1 <= |intervals[i]| <= 3 and
\* directions[i] the sign of intervals[i].
C17_AttemptArrays ==
    /\ [][(pc' = "gen" /\ attempts' # attempts) =>
              /\ _degrees' = <<0>>
              /\ _intervals' = <<0>>
              /\ _directions' = <<0>>]_vars
    /\ [](AtValidation =>
              /\ Len(_degrees) = _length
              /\ Len(_intervals) = _length
              /\ Len(_directions) = _length
              /\ \A i \in 1..(_length - 1) :
                    /\ At(_intervals, i) = At(_degrees, i) - At(_degrees, i - 1)
                    /\ 1 <= Abs(At(_intervals, i))
                    /\ Abs(At(_intervals, i)) <= 3
                    /\ At(_directions, i) = Sign(At(_intervals, i)))

\* The validator is invoked on the second attempt of a call.
C17_Witness == AtValidation /\ _cycles = 1 /\ attempts = 2

RECURSIVE SumTo(_, _)
SumTo(s, k) == IF k = 0 THEN 0 ELSE s[k] + SumTo(s, k - 1)

\* C18: the outcome of make_notes is a function of its length, its scale and
\* the random choices drawn during the call, whatever earlier calls left in the
\* object.  The call starts its first attempt in a state fixed by its two
\* arguments; from then on the cycle counter is the number of attempts the
\* call has completed and the degrees are the running sums of the signed
\* intervals drawn in the current attempt.
C18_OutcomeOfCallOnly ==
    /\ [][\A length \in Lengths, scale \in Scales :
             (MakeNotes(length, scale) /\ pc' = "gen") =>
                 <<_length', _scale', _cycles', _degrees', _intervals', _directions'>>
                     = <<length, scale, 0, <<0>>, <<0>>, <<0>>>>]_vars
    /\ []((pc = "gen" \/ LoopLeft) =>
             /\ _cycles = attempts - (IF pc = "gen" THEN 1 ELSE 0)
             /\ Len(_degrees) = Len(_intervals)
             /\ \A k \in 1..Len(_degrees) : _degrees[k] = SumTo(_intervals, k))

\* The first attempt of a call on an object on which an earlier call succeeded.
C18_Witness ==
    /\ pc = "gen"
    /\ accepted
    /\ attempts = 1
    /\ _cycles = 0
    /\ _degrees = <<0>>

\* C20: in every accepted sequence the second-to-last degree is +1 or -1: the
\* last interval has magnitude at most 3 and leads to 0, so +6 and -6 cannot
\* be the second-to-last degree.
C20_PenultimateIsStep ==
    Succeeded =>
        /\ Abs(AtEnd(_intervals, -1)) <= 3
        /\ AtEnd(_degrees, -2) + AtEnd(_intervals, -1) = 0
        /\ AtEnd(_degrees, -2) \in {1, -1}

C20_Witness == Succeeded /\ AtEnd(_degrees, -2) = 1 /\ _length = DEFAULT_LENGTH

====
